---- MODULE Spec2Model ----
(***************************************************************************)
(* Model of oss2/models.py: the result objects built from an HTTP response *)
(* (RequestResult and its subclasses) and the stream pipeline composed by  *)
(* GetObjectResult.                                                        *)
(*                                                                         *)
(* Python values are modelled as records [t, i, s] of one shape (t: type   *)
(* tag, i: integer payload, s: string payload as a sequence of one-char    *)
(* strings), so that values of different Python types can be compared.    *)
(***************************************************************************)
EXTENDS Integers, Sequences, FiniteSets, TLC

VARIABLES resp, args, obj, rawRead, eof, crcacc, reported, out

vars == <<resp, args, obj, rawRead, eof, crcacc, reported, out>>

(* ------------------------------ bounds -------------------------------- *)
\* Longest response body, in bytes.
MaxBody == 2
\* Largest explicit amt passed to read().
MaxAmt == 2
\* Bytes are 0 .. ByteMod - 1.
ByteMod == 2

(* --------------------------- Python values ---------------------------- *)
None == [t |-> "None", i |-> 0, s |-> <<>>]
PyInt(n) == [t |-> "int", i |-> n, s |-> <<>>]
PyStr(x) == [t |-> "str", i |-> 0, s |-> x]
PyBool(b) == [t |-> "bool", i |-> IF b THEN 1 ELSE 0, s |-> <<>>]
\* the empty list []
PyEmptyList == [t |-> "list", i |-> 0, s |-> <<>>]
\* a reference to an object of the environment (the response, its header
\* mapping, a callback, a crypto provider), named by s
PyRef(name) == [t |-> "ref", i |-> 0, s |-> <<name>>]
\* an exception raised while evaluating an expression
PyRaise(exc) == [t |-> "raise", i |-> 0, s |-> <<exc>>]
IsRaise(v) == v.t = "raise"

\* Python truth value of a value (bool(v)).
Truthy(v) ==
    CASE v.t = "None" -> FALSE
      [] v.t = "int" -> v.i # 0
      [] v.t = "bool" -> v.i # 0
      [] v.t = "str" -> v.s # <<>>
      [] v.t = "list" -> FALSE
      [] OTHER -> TRUE

(* ------------------------------ strings ------------------------------- *)
Digits == {"0", "1", "2", "3", "4", "5", "6", "7", "8", "9"}
DigitVal(c) ==
    CASE c = "0" -> 0 [] c = "1" -> 1 [] c = "2" -> 2 [] c = "3" -> 3
      [] c = "4" -> 4 [] c = "5" -> 5 [] c = "6" -> 6 [] c = "7" -> 7
      [] c = "8" -> 8 [] c = "9" -> 9

RECURSIVE LStrip(_, _)
LStrip(x, c) == IF x # <<>> /\ Head(x) = c THEN LStrip(Tail(x), c) ELSE x
RECURSIVE RStrip(_, _)
RStrip(x, c) ==
    IF x # <<>> /\ x[Len(x)] = c THEN RStrip(SubSeq(x, 1, Len(x) - 1), c) ELSE x
\* str.strip(c) for a one-character c
Strip(x, c) == RStrip(LStrip(x, c), c)

RECURSIVE DigitsValue(_, _)
DigitsValue(x, acc) ==
    IF x = <<>> THEN acc
    ELSE IF Head(x) = "_" THEN DigitsValue(Tail(x), acc)
    ELSE DigitsValue(Tail(x), 10 * acc + DigitVal(Head(x)))

\* the digit part of an integer literal: digits, single underscores between
WellFormedDigits(x) ==
    /\ x # <<>>
    /\ \A k \in 1..Len(x) : x[k] \in Digits \cup {"_"}
    /\ x[1] \in Digits /\ x[Len(x)] \in Digits
    /\ \A k \in 1..(Len(x) - 1) : ~(x[k] = "_" /\ x[k + 1] = "_")

\* the characters int() ignores around a literal, among the characters a
\* header value can hold (code points 0 to 255): space, tab, line feed,
\* carriage return, form feed, vertical tab (code 11), next line (code 133)
\* and no-break space (code 160); the last three are written raw
Whitespace == {" ", "\t", "\n", "\r", "\f", "", "", " "}
RECURSIVE LStripSet(_, _)
LStripSet(x, cs) == IF x # <<>> /\ Head(x) \in cs THEN LStripSet(Tail(x), cs) ELSE x
RECURSIVE RStripSet(_, _)
RStripSet(x, cs) ==
    IF x # <<>> /\ x[Len(x)] \in cs THEN RStripSet(SubSeq(x, 1, Len(x) - 1), cs)
    ELSE x
\* str.strip(): every leading and trailing whitespace character removed
StripWhitespace(x) == RStripSet(LStripSet(x, Whitespace), Whitespace)

\* the builtin int(str): surrounding whitespace of any kind, an optional
\* sign, digits; anything else raises ValueError
int(x) ==
    LET y == StripWhitespace(x)
        signed == y # <<>> /\ Head(y) \in {"+", "-"}
        d == IF signed THEN Tail(y) ELSE y
    IN IF WellFormedDigits(d)
       THEN PyInt(IF signed /\ Head(y) = "-" THEN 0 - DigitsValue(d, 0)
                  ELSE DigitsValue(d, 0))
       ELSE PyRaise("ValueError")

\* the default converter of _hget, lambda x: x
identity(x) == PyStr(x)

\* the converter of _get_etag, lambda x: x.strip('"')
strip_quotes(x) == PyStr(Strip(x, "\""))

\* An HTTP date is modelled by its fields <<day of January 1970, hour,
\* minute, second>>, each a decimal string; any other shape is malformed.
http_to_unixtime(x) ==
    IF Len(x) = 4 /\ \A k \in 1..4 : x[k] \in Digits
    THEN PyInt((DigitVal(x[1]) - 1) * 86400 + DigitVal(x[2]) * 3600
               + DigitVal(x[3]) * 60 + DigitVal(x[4]))
    ELSE PyRaise("ValueError")

HexVal(c) ==
    CASE c \in Digits -> DigitVal(c)
      [] c = "A" -> 10 [] c = "B" -> 11 [] c = "C" -> 12
      [] c = "D" -> 13 [] c = "E" -> 14 [] c = "F" -> 15
HexDigits == Digits \cup {"A", "B", "C", "D", "E", "F"}
\* the characters percent-escapes of the model decode to
CharOf(code) ==
    CASE code = 32 -> " " [] code = 37 -> "%" [] code = 47 -> "/"
      [] OTHER -> "?"
RECURSIVE Unquote(_)
Unquote(x) ==
    IF x = <<>> THEN <<>>
    ELSE IF Head(x) = "%" /\ Len(x) >= 3 /\ x[2] \in HexDigits /\ x[3] \in HexDigits
    THEN <<CharOf(16 * HexVal(x[2]) + HexVal(x[3]))>> \o Unquote(SubSeq(x, 4, Len(x)))
    ELSE <<Head(x)>> \o Unquote(Tail(x))
\* compat.urlunquote applied to a Python value: percent-decoding of a
\* string; a None argument raises TypeError
urlunquote(v) ==
    IF IsRaise(v) THEN v
    ELSE IF v.t = "str" THEN PyStr(Unquote(v.s))
    ELSE PyRaise("TypeError")

(* ------------------------------ headers ------------------------------- *)
\* resp.headers is a case-insensitive mapping; the model keys it by the
\* lower-cased header name and marks a header that is not in the mapping
\* by the value Absent.
Absent == <<"<absent>">>
HeaderNames ==
    {"x-oss-request-id", "x-oss-object-type", "last-modified", "content-type",
     "content-length", "etag", "x-oss-symlink-target", "x-oss-hash-crc64ecma",
     "x-oss-next-append-position", "x-oss-meta-oss-crypto-key",
     "x-oss-meta-oss-crypto-start", "x-oss-meta-oss-cek-alg", "content-range"}
NoHeaders == [k \in HeaderNames |-> Absent]
\* key in headers
HasHeader(headers, key) == headers[key] # Absent

\* converter(x), for the converters handed to _hget, named by a string
call(converter, x) ==
    CASE converter = "lambda x: x" -> identity(x)
      [] converter = "lambda x: x.strip('\"')" -> strip_quotes(x)
      [] converter = "int" -> int(x)
      [] converter = "http_to_unixtime" -> http_to_unixtime(x)

\* _hget(headers, key, converter)
_hget(headers, key, converter) ==
    IF HasHeader(headers, key) THEN call(converter, headers[key]) ELSE None

\* _get_etag(headers)
_get_etag(headers) == _hget(headers, "etag", "lambda x: x.strip('\"')")

\* headers.get(key, default)
headers_get(headers, key, default) ==
    IF HasHeader(headers, key) THEN PyStr(headers[key]) ELSE default

(* --------------------------- result objects --------------------------- *)
\* An object under construction: its class, the outcome of the constructor
\* so far ("ok" or the exception raised), its attributes, the stream chain
\* from the raw response (innermost first), the argument of the exception
\* raised, and the calls made on the crypto provider.
EmptyAttrs == [a \in {} |-> None]
New(cls) ==
    [cls |-> cls, outcome |-> "ok", attrs |-> EmptyAttrs, stream |-> <<>>,
     err |-> None, calls |-> <<>>]
NoObj ==
    [cls |-> "", outcome |-> "none", attrs |-> EmptyAttrs, stream |-> <<>>,
     err |-> None, calls |-> <<>>]

HasAttr(o, name) == name \in DOMAIN o.attrs
Attr(o, name) == o.attrs[name]
Raise(o, exc, info) == [o EXCEPT !.outcome = exc, !.err = info]
\* self.name = v, where evaluating v may have raised
SetAttr(o, name, v) ==
    IF o.outcome # "ok" THEN o
    ELSE IF IsRaise(v) THEN Raise(o, v.s[1], None)
    ELSE [o EXCEPT !.attrs = (name :> v) @@ o.attrs]

\* mutant of RequestResult.__init__: request_id defaults to None
RequestResult_init_nodefault(o, r) ==
    LET o1 == SetAttr(o, "resp", PyRef("resp"))
        o2 == SetAttr(o1, "status", PyInt(r.status))
        o3 == SetAttr(o2, "headers", PyRef("resp.headers"))
    IN SetAttr(o3, "request_id", headers_get(r.headers, "x-oss-request-id", None))
RequestResult_init(o, r) ==
    LET o1 == SetAttr(o, "resp", PyRef("resp"))
        o2 == SetAttr(o1, "status", PyInt(r.status))
        o3 == SetAttr(o2, "headers", PyRef("resp.headers"))
    IN SetAttr(o3, "request_id",
               headers_get(r.headers, "x-oss-request-id", PyStr(<<>>)))

HeadObjectResult_init(o, r) ==
    LET o0 == RequestResult_init(o, r)
        o1 == SetAttr(o0, "object_type", _hget(r.headers, "x-oss-object-type", "lambda x: x"))
        o2 == SetAttr(o1, "last_modified", _hget(r.headers, "last-modified", "http_to_unixtime"))
        o3 == SetAttr(o2, "content_type", _hget(r.headers, "content-type", "lambda x: x"))
        o4 == SetAttr(o3, "content_length", _hget(r.headers, "content-length", "int"))
    IN SetAttr(o4, "etag", _get_etag(r.headers))

GetObjectMetaResult_init(o, r) ==
    LET o0 == RequestResult_init(o, r)
        o1 == SetAttr(o0, "last_modified", _hget(r.headers, "last-modified", "http_to_unixtime"))
        o2 == SetAttr(o1, "content_length", _hget(r.headers, "content-length", "int"))
    IN SetAttr(o2, "etag", _get_etag(r.headers))

GetSymlinkResult_init(o, r) ==
    LET o0 == RequestResult_init(o, r)
    IN SetAttr(o0, "target_key",
               urlunquote(_hget(r.headers, "x-oss-symlink-target", "lambda x: x")))

PutObjectResult_init(o, r) ==
    LET o0 == RequestResult_init(o, r)
        o1 == SetAttr(o0, "etag", _get_etag(r.headers))
    IN SetAttr(o1, "crc", _hget(r.headers, "x-oss-hash-crc64ecma", "int"))

AppendObjectResult_init(o, r) ==
    LET o0 == RequestResult_init(o, r)
        o1 == SetAttr(o0, "etag", _get_etag(r.headers))
        o2 == SetAttr(o1, "crc", _hget(r.headers, "x-oss-hash-crc64ecma", "int"))
    IN SetAttr(o2, "next_position",
               _hget(r.headers, "x-oss-next-append-position", "int"))

(* ------------------------- crypto provider ---------------------------- *)
\* An encrypted metadata value is modelled as the marker "#" followed by
\* the plain text.
\* crypto_provider.decrypt_oss_meta_data(headers, key): the decrypted value
\* of the header, None when the header is absent or cannot be decrypted
decrypt_oss_meta_data(headers, key) ==
    IF HasHeader(headers, key) /\ headers[key] # <<>> /\ Head(headers[key]) = "#"
    THEN PyStr(Tail(headers[key]))
    ELSE None

(* -------------------------- GetObjectResult --------------------------- *)
Stage(kind, key, n) == [kind |-> kind, key |-> key, n |-> n]
\* utils.make_progress_adapter(data, progress_callback, size)
make_progress_adapter(stream, size) ==
    Append(stream, Stage("progress", <<>>, IF size.t = "int" THEN size.i ELSE 0 - 1))
\* utils.make_crc_adapter(data)
make_crc_adapter(stream) == Append(stream, Stage("crc", <<>>, 0))
\* crypto_provider.make_decrypt_adapter(stream, key, start)
make_decrypt_adapter(stream, key, start) == Append(stream, Stage("decrypt", key, start))

\* the condition of line 107
is_encrypted_range_get(headers) ==
    /\ Truthy(_hget(headers, "x-oss-meta-oss-crypto-key", "lambda x: x"))
    /\ Truthy(_hget(headers, "content-range", "lambda x: x"))

\* mutant of check_range: the check is made only when a provider is given
check_range_provider_only(o, r) ==
    IF /\ o.outcome = "ok"
       /\ Truthy(Attr(o, "__crypto_provider"))
       /\ is_encrypted_range_get(r.headers)
    THEN Raise(o, "ClientError", None)
    ELSE o
\* lines 107-108
check_range(o, r) ==
    IF o.outcome = "ok" /\ is_encrypted_range_get(r.headers)
    THEN Raise(o, "ClientError", None)
    ELSE o

\* lines 110-113
wrap_progress(o, progress_callback) ==
    IF o.outcome # "ok" THEN o
    ELSE IF Truthy(progress_callback)
    THEN [o EXCEPT !.stream = make_progress_adapter(<<>>, Attr(o, "content_length"))]
    ELSE [o EXCEPT !.stream = <<>>]

\* mutant of wrap_crc: the checksum adapter is put under the stream built so far
wrap_crc_inner(o, r) ==
    LET o1 == SetAttr(o, "__crc", _hget(r.headers, "x-oss-hash-crc64ecma", "int"))
    IN IF o1.outcome = "ok" /\ Truthy(Attr(o1, "__crc_enabled"))
       THEN [o1 EXCEPT !.stream = make_crc_adapter(<<>>) \o o1.stream]
       ELSE o1
\* mutant of wrap_crc: the checksum header is parsed only when crc is enabled
wrap_crc_gated(o, r) ==
    IF o.outcome = "ok" /\ Truthy(Attr(o, "__crc_enabled"))
    THEN LET o1 == SetAttr(o, "__crc", _hget(r.headers, "x-oss-hash-crc64ecma", "int"))
         IN IF o1.outcome = "ok"
            THEN [o1 EXCEPT !.stream = make_crc_adapter(o1.stream)]
            ELSE o1
    ELSE SetAttr(o, "__crc", None)
\* lines 115-117
wrap_crc(o, r) ==
    LET o1 == SetAttr(o, "__crc", _hget(r.headers, "x-oss-hash-crc64ecma", "int"))
    IN IF o1.outcome = "ok" /\ Truthy(Attr(o1, "__crc_enabled"))
       THEN [o1 EXCEPT !.stream = make_crc_adapter(o1.stream)]
       ELSE o1

\* mutant of wrap_decrypt: without all three values decryption is skipped
wrap_decrypt_lenient(o, r) ==
    IF o.outcome # "ok" \/ ~Truthy(Attr(o, "__crypto_provider")) THEN o
    ELSE
      LET key == decrypt_oss_meta_data(r.headers, "x-oss-meta-oss-crypto-key")
          start == decrypt_oss_meta_data(r.headers, "x-oss-meta-oss-crypto-start")
          cek_alg == _hget(r.headers, "x-oss-meta-oss-cek-alg", "lambda x: x")
          o1 == [o EXCEPT !.calls = <<"decrypt_oss_meta_data", "decrypt_oss_meta_data">>]
      IN IF Truthy(key) /\ Truthy(start) /\ Truthy(cek_alg)
         THEN IF IsRaise(int(start.s)) THEN Raise(o1, "ValueError", None)
              ELSE [o1 EXCEPT !.stream = make_decrypt_adapter(o1.stream, key.s, int(start.s).i),
                              !.calls = Append(o1.calls, "make_decrypt_adapter")]
         ELSE o1
\* mutant of wrap_decrypt: the algorithm header is not required
wrap_decrypt_noalg(o, r) ==
    IF o.outcome # "ok" \/ ~Truthy(Attr(o, "__crypto_provider")) THEN o
    ELSE
      LET key == decrypt_oss_meta_data(r.headers, "x-oss-meta-oss-crypto-key")
          start == decrypt_oss_meta_data(r.headers, "x-oss-meta-oss-crypto-start")
          o1 == [o EXCEPT !.calls = <<"decrypt_oss_meta_data", "decrypt_oss_meta_data">>]
      IN IF Truthy(key) /\ Truthy(start)
         THEN IF IsRaise(int(start.s)) THEN Raise(o1, "ValueError", None)
              ELSE [o1 EXCEPT !.stream = make_decrypt_adapter(o1.stream, key.s, int(start.s).i),
                              !.calls = Append(o1.calls, "make_decrypt_adapter")]
         ELSE Raise(o1, "InconsistentError", Attr(o1, "request_id"))
\* mutant of wrap_decrypt: the decryption adapter wraps the raw response,
\* under the adapters built before it
wrap_decrypt_innermost(o, r) ==
    IF o.outcome # "ok" \/ ~Truthy(Attr(o, "__crypto_provider")) THEN o
    ELSE
      LET key == decrypt_oss_meta_data(r.headers, "x-oss-meta-oss-crypto-key")
          start == decrypt_oss_meta_data(r.headers, "x-oss-meta-oss-crypto-start")
          cek_alg == _hget(r.headers, "x-oss-meta-oss-cek-alg", "lambda x: x")
          o1 == [o EXCEPT !.calls = <<"decrypt_oss_meta_data", "decrypt_oss_meta_data">>]
      IN IF Truthy(key) /\ Truthy(start) /\ Truthy(cek_alg)
         THEN IF IsRaise(int(start.s)) THEN Raise(o1, "ValueError", None)
              ELSE [o1 EXCEPT !.stream = make_decrypt_adapter(<<>>, key.s, int(start.s).i)
                                            \o o1.stream,
                              !.calls = Append(o1.calls, "make_decrypt_adapter")]
         ELSE Raise(o1, "InconsistentError", Attr(o1, "request_id"))
\* lines 119-127
wrap_decrypt(o, r) ==
    IF o.outcome # "ok" \/ ~Truthy(Attr(o, "__crypto_provider")) THEN o
    ELSE
      LET key == decrypt_oss_meta_data(r.headers, "x-oss-meta-oss-crypto-key")
          start == decrypt_oss_meta_data(r.headers, "x-oss-meta-oss-crypto-start")
          cek_alg == _hget(r.headers, "x-oss-meta-oss-cek-alg", "lambda x: x")
          o1 == [o EXCEPT !.calls = <<"decrypt_oss_meta_data", "decrypt_oss_meta_data">>]
      IN IF Truthy(key) /\ Truthy(start) /\ Truthy(cek_alg)
         THEN IF IsRaise(int(start.s)) THEN Raise(o1, "ValueError", None)
              ELSE [o1 EXCEPT !.stream = make_decrypt_adapter(o1.stream, key.s, int(start.s).i),
                              !.calls = Append(o1.calls, "make_decrypt_adapter")]
         ELSE Raise(o1, "InconsistentError", Attr(o1, "request_id"))

\* mutant of GetObjectResult.__init__: the range check is made after the
\* progress and checksum stages are built
GetObjectResult_init_latecheck(o, r, progress_callback, crc_enabled, crypto_provider) ==
    LET o0 == HeadObjectResult_init(o, r)
        o1 == SetAttr(o0, "__crc_enabled", crc_enabled)
        o2 == SetAttr(o1, "__crypto_provider", crypto_provider)
        o3 == wrap_progress(o2, progress_callback)
        o4 == wrap_crc(o3, r)
        o5 == check_range(o4, r)
    IN wrap_decrypt(o5, r)
\* lines 102-127
GetObjectResult_init(o, r, progress_callback, crc_enabled, crypto_provider) ==
    LET o0 == HeadObjectResult_init(o, r)
        o1 == SetAttr(o0, "__crc_enabled", crc_enabled)
        o2 == SetAttr(o1, "__crypto_provider", crypto_provider)
        o3 == check_range(o2, r)
        o4 == wrap_progress(o3, progress_callback)
        o5 == wrap_crc(o4, r)
    IN wrap_decrypt(o5, r)

(* ------------------------------ streams ------------------------------- *)
Min(a, b) == IF a < b THEN a ELSE b
Bytes == 0..(ByteMod - 1)
\* all byte strings of length lo..hi
ByteSeqs(lo, hi) == UNION {[1..n -> Bytes] : n \in lo..hi}

\* width of the checksum of the model (the library's is 64 bits)
CrcMod == 2 ^ 4
RECURSIVE Crc64(_, _)
\* the checksum after feeding data to a checksum whose value is crc
Crc64(crc, data) ==
    IF data = <<>> THEN crc
    ELSE Crc64((3 * crc + Head(data) + 1) % CrcMod, Tail(data))

\* the plain text of the bytes data that start at position offset of the body
DecryptBytes(data, key, start, offset) ==
    [k \in 1..Len(data) |-> (data[k] + Len(key) + start + offset + k) % ByteMod]

\* The state of the adapters of a stream: the bytes a read returns, the
\* checksum accumulated and the byte count reported to the callback.
RECURSIVE Through(_, _, _)
\* what a chunk read from the raw response at position offset becomes on
\* its way through the adapters of chain, innermost first
Through(chain, st, offset) ==
    IF chain = <<>> THEN st
    ELSE LET a == Head(chain)
             st1 == CASE a.kind = "progress" ->
                           [st EXCEPT !.reported = offset + Len(st.data)]
                      [] a.kind = "crc" ->
                           [st EXCEPT !.crc = Crc64(st.crc, st.data)]
                      [] a.kind = "decrypt" ->
                           [st EXCEPT !.data = DecryptBytes(st.data, a.key, a.n, offset)]
         IN Through(Tail(chain), st1, offset)

RECURSIVE stream_crc(_, _)
\* the crc property of a stream: the checksum of its checksum adapter;
\* the other adapters give the crc of the stream they wrap
stream_crc(chain, acc) ==
    IF chain = <<>> THEN PyRaise("AttributeError")
    ELSE IF chain[Len(chain)].kind = "crc" THEN PyInt(acc)
    ELSE stream_crc(SubSeq(chain, 1, Len(chain) - 1), acc)

\* mutant of client_crc: the stream's crc whether or not crc is enabled
client_crc_unguarded(o, acc) ==
    IF o.stream # <<>> THEN stream_crc(o.stream, acc) ELSE PyInt(acc)
\* GetObjectResult.client_crc
client_crc(o, acc) ==
    IF Truthy(Attr(o, "__crc_enabled")) THEN stream_crc(o.stream, acc) ELSE None

\* GetObjectResult.server_crc
server_crc(o) == Attr(o, "__crc")

(* --------------------- the GetObjectResult pipeline ------------------- *)
KeyValues == {Absent, <<>>, <<"#">>, <<"#", "k">>}
StartValues == {Absent, <<"#">>, <<"#", "1">>, <<"#", "x">>}
AlgValues == {Absent, <<>>, <<"A">>}
RangeValues == {Absent, <<>>, <<"b">>}
CrcValues == {Absent, <<"7">>, <<" ", "7", "">>, <<"x">>}
LengthValues == {Absent, <<"2">>, <<"x">>}
RequestIdValues == {Absent, <<"r">>}

Headers(h) == h @@ NoHeaders

Init ==
    /\ \E key \in KeyValues, start \in StartValues, alg \in AlgValues,
          range \in RangeValues, crc \in CrcValues, len \in LengthValues,
          rid \in RequestIdValues :
         resp = [status |-> IF range = Absent THEN 200 ELSE 206,
                 headers |-> Headers(("x-oss-meta-oss-crypto-key" :> key)
                                @@ ("x-oss-meta-oss-crypto-start" :> start)
                                @@ ("x-oss-meta-oss-cek-alg" :> alg)
                                @@ ("content-range" :> range)
                                @@ ("x-oss-hash-crc64ecma" :> crc)
                                @@ ("content-length" :> len)
                                @@ ("x-oss-request-id" :> rid))]
    /\ args \in [progress_callback : {None, PyRef("callback")},
                 crc_enabled : {PyBool(FALSE), PyBool(TRUE)},
                 crypto_provider : {None, PyRef("provider")}]
    /\ obj = NoObj
    /\ rawRead = <<>>
    /\ eof = FALSE
    /\ crcacc = 0
    /\ reported = 0
    /\ out = <<>>

\* GetObjectResult(resp, progress_callback, crc_enabled, crypto_provider)
GetObject ==
    /\ obj.outcome = "none"
    /\ obj' = GetObjectResult_init(New("GetObjectResult"), resp,
                  args.progress_callback, args.crc_enabled, args.crypto_provider)
    /\ UNCHANGED <<resp, args, rawRead, eof, crcacc, reported, out>>

\* what resp.read(amt) can return: at most amt bytes (all that is left
\* when amt is None), nothing once the body has ended
RawChunks(amt) ==
    LET left == MaxBody - Len(rawRead)
    IN IF eof THEN {<<>>}
       ELSE IF amt = None THEN ByteSeqs(0, left)
       ELSE ByteSeqs(0, Min(amt.i, left))

\* result.read(amt): self.stream.read(amt)
Read(amt) ==
    /\ obj.cls = "GetObjectResult"
    /\ obj.outcome = "ok"
    /\ \E chunk \in RawChunks(amt) :
         LET st == Through(obj.stream,
                           [data |-> chunk, crc |-> crcacc, reported |-> reported],
                           Len(rawRead))
         IN /\ rawRead' = rawRead \o chunk
            /\ eof' = (eof \/ chunk = <<>> \/ amt = None)
            /\ crcacc' = st.crc
            /\ reported' = st.reported
            /\ out' = out \o st.data
    /\ UNCHANGED <<resp, args, obj>>

\* what the next step of iter(resp) can yield: a non-empty segment of the
\* body that is left, or nothing (the iteration stops) when the body ends
\* here; a body has any length up to MaxBody, so it can end after any
\* segment
RawSegments ==
    LET left == MaxBody - Len(rawRead)
    IN IF eof THEN {<<>>} ELSE ByteSeqs(0, left)

\* one step of iter(result): the next segment of iter(self.stream)
Iterate ==
    /\ obj.cls = "GetObjectResult"
    /\ obj.outcome = "ok"
    /\ \E chunk \in RawSegments :
         LET st == Through(obj.stream,
                           [data |-> chunk, crc |-> crcacc, reported |-> reported],
                           Len(rawRead))
         IN /\ rawRead' = rawRead \o chunk
            /\ eof' = (eof \/ chunk = <<>>)
            /\ crcacc' = st.crc
            /\ reported' = st.reported
            /\ out' = out \o st.data
    /\ UNCHANGED <<resp, args, obj>>

Next ==
    \/ GetObject
    \/ \E amt \in {None} \cup {PyInt(n) : n \in 1..MaxAmt} : Read(amt)
    \/ Iterate

Spec == Init /\ [][Next]_vars

(* ------------------- claims on GetObjectResult ------------------------ *)
H == resp.headers
Constructed == obj.cls = "GetObjectResult" /\ obj.outcome # "none"
Built == obj.cls = "GetObjectResult" /\ obj.outcome = "ok"
NonEmpty(key) == HasHeader(H, key) /\ H[key] # <<>>
MetaKeys ==
    {"x-oss-meta-oss-crypto-key", "x-oss-meta-oss-crypto-start",
     "x-oss-meta-oss-cek-alg"}
MetaPresent == {k \in MetaKeys : HasHeader(H, k)}
\* the headers HeadObjectResult converts are well formed
BaseParses ==
    /\ ~IsRaise(_hget(H, "content-length", "int"))
    /\ ~IsRaise(_hget(H, "last-modified", "http_to_unixtime"))
\* so is the checksum header
CrcParses == ~IsRaise(_hget(H, "x-oss-hash-crc64ecma", "int"))
ProviderGiven == args.crypto_provider # None
Kinds(stream) == [k \in 1..Len(stream) |-> stream[k].kind]
HasDecrypt(stream) == \E k \in 1..Len(stream) : stream[k].kind = "decrypt"
\* the key and the start offset decrypt to non-empty values, the start
\* offset to an integer literal, and the algorithm is not empty
MetaResolved ==
    /\ Truthy(decrypt_oss_meta_data(H, "x-oss-meta-oss-crypto-key"))
    /\ Truthy(decrypt_oss_meta_data(H, "x-oss-meta-oss-crypto-start"))
    /\ NonEmpty("x-oss-meta-oss-cek-alg")
StartIsInt ==
    ~IsRaise(int(decrypt_oss_meta_data(H, "x-oss-meta-oss-crypto-start").s))

\* C1 as stated: whenever the encryption-key header and the Content-Range
\* header are present, construction fails with ClientError.
C1_Original ==
    (Constructed /\ HasHeader(H, "x-oss-meta-oss-crypto-key")
                 /\ HasHeader(H, "content-range"))
        => obj.outcome = "ClientError"
\* C1 amended: whenever the encryption-key header and the Content-Range
\* header are present with non-empty values and the headers HeadObjectResult
\* converts are well formed, construction fails with ClientError, whatever
\* the callback, crc_enabled, the provider and the other metadata headers.
C1_RangeOnEncrypted ==
    (Constructed /\ NonEmpty("x-oss-meta-oss-crypto-key")
                 /\ NonEmpty("content-range") /\ BaseParses)
        => obj.outcome = "ClientError"
C1_Witness ==
    /\ obj.outcome = "ClientError"
    /\ NonEmpty("x-oss-meta-oss-crypto-key") /\ NonEmpty("content-range")
    /\ ~ProviderGiven
    /\ args.crc_enabled = PyBool(TRUE)
    /\ MetaPresent = {"x-oss-meta-oss-crypto-key"}

\* C2 as stated: a response with none of the three encryption-metadata
\* headers is constructed successfully, with no decryption stage, also
\* when a crypto provider is supplied.
C2_Original ==
    (Constructed /\ MetaPresent = {})
        => (obj.outcome = "ok" /\ ~HasDecrypt(obj.stream))
\* C2 amended: for a response with none of the three encryption-metadata
\* headers whose converted headers are well formed, construction succeeds
\* with no decryption stage when no crypto provider is supplied, and fails
\* with InconsistentError when one is supplied.
C2_NoMetadata ==
    (Constructed /\ MetaPresent = {} /\ BaseParses /\ CrcParses)
        => IF ProviderGiven
           THEN obj.outcome = "InconsistentError"
           ELSE obj.outcome = "ok" /\ ~HasDecrypt(obj.stream)
C2_Witness ==
    /\ Constructed /\ MetaPresent = {} /\ ProviderGiven
    /\ obj.outcome = "InconsistentError"
    /\ args.progress_callback # None

\* C3 as stated: a response with one or two of the three encryption-metadata
\* headers and no Content-Range fails with InconsistentError, whatever the
\* callback, crc_enabled and the crypto provider.
C3_Original ==
    (Constructed /\ Cardinality(MetaPresent) \in {1, 2}
                 /\ ~HasHeader(H, "content-range"))
        => obj.outcome = "InconsistentError"
\* C3 amended: for a response with one or two of the three encryption-metadata
\* headers, no Content-Range and well-formed converted headers, construction
\* fails with InconsistentError carrying the request id when a crypto
\* provider is supplied; with no provider it succeeds without a decryption
\* stage.
C3_PartialMetadata ==
    (Constructed /\ Cardinality(MetaPresent) \in {1, 2}
                 /\ ~HasHeader(H, "content-range") /\ BaseParses /\ CrcParses)
        => IF ProviderGiven
           THEN /\ obj.outcome = "InconsistentError"
                /\ obj.err = headers_get(H, "x-oss-request-id", PyStr(<<>>))
           ELSE obj.outcome = "ok" /\ ~HasDecrypt(obj.stream)
C3_Witness ==
    /\ Constructed /\ ProviderGiven
    /\ MetaPresent = {"x-oss-meta-oss-crypto-key", "x-oss-meta-oss-crypto-start"}
    /\ Truthy(decrypt_oss_meta_data(H, "x-oss-meta-oss-crypto-key"))
    /\ Truthy(decrypt_oss_meta_data(H, "x-oss-meta-oss-crypto-start"))
    /\ ~HasHeader(H, "content-range")
    /\ obj.outcome = "InconsistentError"
    /\ obj.err = PyStr(<<"r">>)

\* C4 as stated: a response with all three encryption-metadata headers and
\* no Content-Range is constructed successfully and its outermost stage is
\* the decryption stage.
C4_Original ==
    (Constructed /\ MetaPresent = MetaKeys /\ ~HasHeader(H, "content-range"))
        => /\ obj.outcome = "ok"
           /\ obj.stream # <<>>
           /\ obj.stream[Len(obj.stream)].kind = "decrypt"
\* C4 amended: for a response with all three encryption-metadata headers, no
\* Content-Range and well-formed converted headers: when a crypto provider is
\* supplied and resolves the key and the start offset to non-empty values,
\* the start offset being an integer, and the algorithm is not empty,
\* construction succeeds and the decryption stage is the outermost stage,
\* present once; when no provider is supplied construction succeeds with no
\* decryption stage.
C4_FullMetadata ==
    (Constructed /\ MetaPresent = MetaKeys /\ ~HasHeader(H, "content-range")
                 /\ BaseParses /\ CrcParses)
        => /\ (ProviderGiven /\ MetaResolved /\ StartIsInt)
                => /\ obj.outcome = "ok"
                   /\ obj.stream # <<>>
                   /\ obj.stream[Len(obj.stream)].kind = "decrypt"
                   /\ \A k \in 1..(Len(obj.stream) - 1) :
                          obj.stream[k].kind # "decrypt"
           /\ ~ProviderGiven
                => obj.outcome = "ok" /\ ~HasDecrypt(obj.stream)
C4_Witness ==
    /\ Built /\ MetaPresent = MetaKeys /\ ProviderGiven
    /\ Len(obj.stream) = 3
    /\ obj.stream[3] = Stage("decrypt", <<"k">>, 1)
    /\ out # <<>>

\* whether the stage of this kind is enabled by the constructor's inputs
StageEnabled(kind) ==
    CASE kind = "progress" -> args.progress_callback # None
      [] kind = "crc" -> args.crc_enabled = PyBool(TRUE)
      [] kind = "decrypt" -> ProviderGiven /\ MetaResolved
\* C5: the chain of a constructed GetObjectResult is the subsequence of
\* progress, checksum, decryption of the enabled stages, in that order and
\* each once; with no stage enabled the stream is the raw response and the
\* reads return what the raw response's reads returned.
C5_StageOrder ==
    Built => /\ Kinds(obj.stream)
                  = SelectSeq(<<"progress", "crc", "decrypt">>, StageEnabled)
             /\ (\A kind \in {"progress", "crc", "decrypt"} : ~StageEnabled(kind))
                  => (obj.stream = <<>> /\ out = rawRead)
C5_Witness ==
    /\ Built
    /\ Kinds(obj.stream) = <<"progress", "decrypt">>
    /\ Len(out) = MaxBody
C5_WitnessRaw ==
    Built /\ obj.stream = <<>> /\ Len(out) = MaxBody /\ ProviderGiven = FALSE

\* C6: with crc disabled client_crc is None after any reads; with crc
\* enabled, once the stream is read to its end client_crc is the checksum of
\* the raw bytes read, with or without progress and decryption stages.
C6_ClientCrc ==
    Built => /\ args.crc_enabled = PyBool(FALSE) => client_crc(obj, crcacc) = None
             /\ (args.crc_enabled = PyBool(TRUE) /\ eof)
                  => client_crc(obj, crcacc) = PyInt(Crc64(0, rawRead))
C6_Witness ==
    /\ Built /\ eof /\ Len(rawRead) = MaxBody
    /\ Kinds(obj.stream) = <<"crc", "decrypt">>
    /\ out # rawRead
    /\ client_crc(obj, crcacc) = PyInt(Crc64(0, rawRead))
    /\ Crc64(0, rawRead) # Crc64(0, out)

\* the integer the x-oss-hash-crc64ecma header holds, None without the header
ParsedServerCrc ==
    IF H["x-oss-hash-crc64ecma"] = Absent THEN None
    ELSE LET d == StripWhitespace(H["x-oss-hash-crc64ecma"])
         IN IF d # <<>> /\ \A k \in 1..Len(d) : d[k] \in Digits
            THEN PyInt(DigitsValue(d, 0))
            ELSE PyRaise("ValueError")
\* C11: the server_crc of a constructed GetObjectResult is the integer parsed
\* from the x-oss-hash-crc64ecma header (None without the header), whatever
\* crc_enabled, the callback and the provider, and no read, iteration step
\* or client_crc access changes it.
C11_ServerCrc ==
    /\ [](Built => server_crc(obj) = ParsedServerCrc)
    /\ [][Built => /\ Built'
                   /\ server_crc(obj') = server_crc(obj)
                   /\ client_crc(obj', crcacc') \in {None, PyInt(crcacc')}]_vars
C11_Witness ==
    /\ Built /\ eof /\ Len(rawRead) = MaxBody
    /\ HasHeader(H, "x-oss-hash-crc64ecma")
    /\ server_crc(obj) = PyInt(7)
    /\ args.crc_enabled = PyBool(FALSE)
    /\ args.progress_callback = None
    /\ ~ProviderGiven
    /\ crcacc # 7

\* one or two of the three encryption-metadata headers are present
PartialMetadata == Cardinality(MetaPresent) \in {1, 2}
\* C12 as stated: when the key header and Content-Range are present and the
\* metadata is partial, with a provider supplied, the error is ClientError.
C12_Original ==
    (Constructed /\ HasHeader(H, "x-oss-meta-oss-crypto-key")
                 /\ HasHeader(H, "content-range")
                 /\ PartialMetadata /\ ProviderGiven /\ BaseParses)
        => obj.outcome = "ClientError"
\* C12 amended: the range check runs before any stage is built and before
\* the metadata check: when construction fails with ClientError no adapter
\* has been made, the checksum header has not been parsed and the provider
\* has not been called; and when the key header and Content-Range are present
\* with non-empty values and the metadata is partial, with a provider
\* supplied, the error raised is ClientError, not InconsistentError.
C12_RangeCheckFirst ==
    /\ obj.outcome = "ClientError"
         => /\ obj.stream = <<>>
            /\ obj.calls = <<>>
            /\ ~HasAttr(obj, "__crc")
    /\ (Constructed /\ NonEmpty("x-oss-meta-oss-crypto-key")
                    /\ NonEmpty("content-range")
                    /\ PartialMetadata /\ ProviderGiven /\ BaseParses)
         => obj.outcome = "ClientError"
C12_Witness ==
    /\ obj.outcome = "ClientError"
    /\ PartialMetadata /\ ProviderGiven
    /\ args.progress_callback # None
    /\ args.crc_enabled = PyBool(TRUE)
    /\ HasHeader(H, "x-oss-hash-crc64ecma")
    /\ obj.stream = <<>> /\ obj.calls = <<>>

(* ---------------------- envelope + payload results -------------------- *)
\* a or b
Or(a, b) == IF Truthy(a) THEN a ELSE b
EmptyStr == PyStr(<<>>)

BatchDeleteObjectsResult_init(o, r) ==
    SetAttr(RequestResult_init(o, r), "deleted_keys", PyEmptyList)

InitMultipartUploadResult_init(o, r) ==
    SetAttr(RequestResult_init(o, r), "upload_id", None)

ListObjectsResult_init(o, r) ==
    LET o1 == SetAttr(RequestResult_init(o, r), "is_truncated", PyBool(FALSE))
        o2 == SetAttr(o1, "next_marker", EmptyStr)
        o3 == SetAttr(o2, "object_list", PyEmptyList)
    IN SetAttr(o3, "prefix_list", PyEmptyList)

GetObjectAclResult_init(o, r) == SetAttr(RequestResult_init(o, r), "acl", EmptyStr)

ListBucketsResult_init(o, r) ==
    LET o1 == SetAttr(RequestResult_init(o, r), "is_truncated", PyBool(FALSE))
        o2 == SetAttr(o1, "next_marker", EmptyStr)
    IN SetAttr(o2, "buckets", PyEmptyList)

ListMultipartUploadsResult_init(o, r) ==
    LET o1 == SetAttr(RequestResult_init(o, r), "is_truncated", PyBool(FALSE))
        o2 == SetAttr(o1, "next_key_marker", EmptyStr)
        o3 == SetAttr(o2, "next_upload_id_marker", EmptyStr)
        o4 == SetAttr(o3, "upload_list", PyEmptyList)
    IN SetAttr(o4, "prefix_list", PyEmptyList)

ListPartsResult_init(o, r) ==
    LET o1 == SetAttr(RequestResult_init(o, r), "is_truncated", PyBool(FALSE))
        o2 == SetAttr(o1, "next_marker", EmptyStr)
    IN SetAttr(o2, "parts", PyEmptyList)

GetBucketAclResult_init(o, r) == SetAttr(RequestResult_init(o, r), "acl", EmptyStr)

GetBucketLocationResult_init(o, r) ==
    SetAttr(RequestResult_init(o, r), "location", EmptyStr)

BucketLogging_init(o, target_bucket, target_prefix) ==
    SetAttr(SetAttr(o, "target_bucket", target_bucket), "target_prefix", target_prefix)
GetBucketLoggingResult_init(o, r) ==
    BucketLogging_init(RequestResult_init(o, r), EmptyStr, EmptyStr)

BucketStat_init(o, storage_size_in_bytes, object_count, multi_part_upload_count) ==
    LET o1 == SetAttr(o, "storage_size_in_bytes", storage_size_in_bytes)
        o2 == SetAttr(o1, "object_count", object_count)
    IN SetAttr(o2, "multi_part_upload_count", multi_part_upload_count)
GetBucketStatResult_init(o, r) ==
    BucketStat_init(RequestResult_init(o, r), PyInt(0), PyInt(0), PyInt(0))

\* BucketInfo.__init__ with every argument at its default, None
BucketInfo_init(o) ==
    LET o1 == SetAttr(o, "name", None)
        o2 == SetAttr(o1, "owner", None)
        o3 == SetAttr(o2, "location", None)
        o4 == SetAttr(o3, "storage_class", None)
        o5 == SetAttr(o4, "intranet_endpoint", None)
        o6 == SetAttr(o5, "extranet_endpoint", None)
        o7 == SetAttr(o6, "creation_date", None)
    IN SetAttr(o7, "acl", None)
GetBucketInfoResult_init(o, r) == BucketInfo_init(RequestResult_init(o, r))

BucketReferer_init(o, allow_empty_referer, referers) ==
    SetAttr(SetAttr(o, "allow_empty_referer", allow_empty_referer), "referers", referers)
GetBucketRefererResult_init(o, r) ==
    BucketReferer_init(RequestResult_init(o, r), PyBool(FALSE), PyEmptyList)

BucketWebsite_init(o, index_file, error_file) ==
    SetAttr(SetAttr(o, "index_file", index_file), "error_file", error_file)
GetBucketWebsiteResult_init(o, r) ==
    BucketWebsite_init(RequestResult_init(o, r), EmptyStr, EmptyStr)

\* mutant of BucketLifecycle.__init__: rules is stored as given
BucketLifecycle_init_asgiven(o, rules) == SetAttr(o, "rules", rules)
BucketLifecycle_init(o, rules) == SetAttr(o, "rules", Or(rules, PyEmptyList))
GetBucketLifecycleResult_init(o, r) ==
    BucketLifecycle_init(RequestResult_init(o, r), None)

BucketCors_init(o, rules) == SetAttr(o, "rules", Or(rules, PyEmptyList))
GetBucketCorsResult_init(o, r) == BucketCors_init(RequestResult_init(o, r), None)

\* LiveChannelInfo.__init__ with every argument at its default
LiveChannelInfo_init(o) ==
    LET o1 == SetAttr(o, "status", PyStr(<<"e", "n", "a", "b", "l", "e", "d">>))
        o2 == SetAttr(o1, "description", EmptyStr)
        o3 == SetAttr(o2, "target", None)
        o4 == SetAttr(o3, "last_modified", None)
        o5 == SetAttr(o4, "name", None)
        o6 == SetAttr(o5, "play_url", None)
    IN SetAttr(o6, "publish_url", None)

\* LiveChannelList.__init__ with every argument at its default
LiveChannelList_init(o) ==
    LET o1 == SetAttr(o, "prefix", EmptyStr)
        o2 == SetAttr(o1, "marker", EmptyStr)
        o3 == SetAttr(o2, "max_keys", PyInt(100))
        o4 == SetAttr(o3, "is_truncated", PyBool(FALSE))
        o5 == SetAttr(o4, "next_marker", EmptyStr)
    IN SetAttr(o5, "channels", PyEmptyList)

\* LiveChannelStat.__init__ with every argument at its default
LiveChannelStat_init(o) ==
    LET o1 == SetAttr(o, "status", EmptyStr)
        o2 == SetAttr(o1, "remote_addr", EmptyStr)
        o3 == SetAttr(o2, "connected_time", EmptyStr)
        o4 == SetAttr(o3, "video", None)
    IN SetAttr(o4, "audio", None)

LiveChannelHistory_init(o) == SetAttr(o, "records", PyEmptyList)

CreateLiveChannelResult_init(o, r) == LiveChannelInfo_init(RequestResult_init(o, r))
GetLiveChannelResult_init(o, r) == LiveChannelInfo_init(RequestResult_init(o, r))
ListLiveChannelResult_init(o, r) == LiveChannelList_init(RequestResult_init(o, r))
GetLiveChannelStatResult_init(o, r) == LiveChannelStat_init(RequestResult_init(o, r))
GetLiveChannelHistoryResult_init(o, r) ==
    LiveChannelHistory_init(RequestResult_init(o, r))

(* ------------------- constructing the other results ------------------- *)
DefaultArgs ==
    [progress_callback |-> None, crc_enabled |-> PyBool(FALSE),
     crypto_provider |-> None]
NoStream ==
    /\ args = DefaultArgs
    /\ obj = NoObj
    /\ rawRead = <<>>
    /\ eof = FALSE
    /\ crcacc = 0
    /\ reported = 0
    /\ out = <<>>
\* the constructor of a result class is called on the response
Construct(o) ==
    /\ obj.outcome = "none"
    /\ obj' = o
    /\ UNCHANGED <<resp, args, rawRead, eof, crcacc, reported, out>>

ObjectTypeValues == {Absent, <<"N">>}
LastModifiedValues == {Absent, <<"2", "0", "1", "5">>, <<"x">>}
ContentTypeValues == {Absent, <<"t">>}
ContentLengthValues == {Absent, <<"4", "2">>, <<"\t", "4", "2", "">>, <<"x">>}
EtagValues == {Absent, <<"\"", "a", "\"">>, <<"a">>}
SymlinkValues == {Absent, <<"a", "%", "2", "F", "b">>, <<"a">>}
HashValues == {Absent, <<"7">>, <<"x">>}
PositionValues == {Absent, <<"1", "0">>}
TrackingValues == {Absent, <<>>, <<"r", "1">>}

InitHdr ==
    /\ \E ot \in ObjectTypeValues, lm \in LastModifiedValues,
          ct \in ContentTypeValues, cl \in ContentLengthValues,
          et \in EtagValues, sl \in SymlinkValues, hv \in HashValues,
          np \in PositionValues, rid \in TrackingValues :
         resp = [status |-> 200,
                 headers |-> Headers(("x-oss-object-type" :> ot)
                                @@ ("last-modified" :> lm)
                                @@ ("content-type" :> ct)
                                @@ ("content-length" :> cl)
                                @@ ("etag" :> et)
                                @@ ("x-oss-symlink-target" :> sl)
                                @@ ("x-oss-hash-crc64ecma" :> hv)
                                @@ ("x-oss-next-append-position" :> np)
                                @@ ("x-oss-request-id" :> rid))]
    /\ NoStream

NewRequestResult == Construct(RequestResult_init(New("RequestResult"), resp))
NewHeadObjectResult == Construct(HeadObjectResult_init(New("HeadObjectResult"), resp))
NewGetObjectMetaResult ==
    Construct(GetObjectMetaResult_init(New("GetObjectMetaResult"), resp))
NewGetSymlinkResult == Construct(GetSymlinkResult_init(New("GetSymlinkResult"), resp))
NewPutObjectResult == Construct(PutObjectResult_init(New("PutObjectResult"), resp))
NewAppendObjectResult ==
    Construct(AppendObjectResult_init(New("AppendObjectResult"), resp))

NextHdr ==
    \/ NewRequestResult
    \/ NewHeadObjectResult
    \/ NewGetObjectMetaResult
    \/ NewGetSymlinkResult
    \/ NewPutObjectResult
    \/ NewAppendObjectResult

SpecHdr == InitHdr /\ [][NextHdr]_vars

StatusCodes == {200, 204, 404, 500}
BodyValues == {<<>>, <<"<", "x", ">">>, <<"{">>}
InitEnv ==
    /\ resp \in [status : StatusCodes,
                 headers : {Headers("x-oss-request-id" :> rid) : rid \in TrackingValues},
                 body : BodyValues]
    /\ NoStream

EnvelopeInit(cls, o, r) ==
    CASE cls = "BatchDeleteObjectsResult" -> BatchDeleteObjectsResult_init(o, r)
      [] cls = "InitMultipartUploadResult" -> InitMultipartUploadResult_init(o, r)
      [] cls = "ListObjectsResult" -> ListObjectsResult_init(o, r)
      [] cls = "GetObjectAclResult" -> GetObjectAclResult_init(o, r)
      [] cls = "ListBucketsResult" -> ListBucketsResult_init(o, r)
      [] cls = "ListMultipartUploadsResult" -> ListMultipartUploadsResult_init(o, r)
      [] cls = "ListPartsResult" -> ListPartsResult_init(o, r)
      [] cls = "GetBucketAclResult" -> GetBucketAclResult_init(o, r)
      [] cls = "GetBucketLocationResult" -> GetBucketLocationResult_init(o, r)
      [] cls = "GetBucketLoggingResult" -> GetBucketLoggingResult_init(o, r)
      [] cls = "GetBucketStatResult" -> GetBucketStatResult_init(o, r)
      [] cls = "GetBucketInfoResult" -> GetBucketInfoResult_init(o, r)
      [] cls = "GetBucketRefererResult" -> GetBucketRefererResult_init(o, r)
      [] cls = "GetBucketWebsiteResult" -> GetBucketWebsiteResult_init(o, r)
      [] cls = "GetBucketLifecycleResult" -> GetBucketLifecycleResult_init(o, r)
      [] cls = "GetBucketCorsResult" -> GetBucketCorsResult_init(o, r)
      [] cls = "CreateLiveChannelResult" -> CreateLiveChannelResult_init(o, r)
      [] cls = "GetLiveChannelResult" -> GetLiveChannelResult_init(o, r)
      [] cls = "ListLiveChannelResult" -> ListLiveChannelResult_init(o, r)
      [] cls = "GetLiveChannelStatResult" -> GetLiveChannelStatResult_init(o, r)
      [] cls = "GetLiveChannelHistoryResult" -> GetLiveChannelHistoryResult_init(o, r)

\* the results that add fields with fixed defaults to the envelope
DefaultedClasses ==
    {"BatchDeleteObjectsResult", "InitMultipartUploadResult", "ListObjectsResult",
     "GetObjectAclResult", "ListBucketsResult", "ListMultipartUploadsResult",
     "ListPartsResult", "GetBucketAclResult", "GetBucketLocationResult"}
\* the results that inherit from RequestResult and from a payload class
PayloadClasses ==
    {"GetBucketLoggingResult", "GetBucketStatResult", "GetBucketInfoResult",
     "GetBucketRefererResult", "GetBucketWebsiteResult", "GetBucketLifecycleResult",
     "GetBucketCorsResult", "CreateLiveChannelResult", "GetLiveChannelResult",
     "ListLiveChannelResult", "GetLiveChannelStatResult",
     "GetLiveChannelHistoryResult"}

NewDefaultedResult ==
    \E cls \in DefaultedClasses : Construct(EnvelopeInit(cls, New(cls), resp))
NewPayloadResult ==
    \E cls \in PayloadClasses : Construct(EnvelopeInit(cls, New(cls), resp))

NextEnv == NewDefaultedResult \/ NewPayloadResult

SpecEnv == InitEnv /\ [][NextEnv]_vars

(* ---------------------- claims on the other results ------------------- *)
EnvelopeFields == {"resp", "status", "headers", "request_id"}
\* the request id derived from the response's headers
DerivedRequestId ==
    IF HasHeader(H, "x-oss-request-id") THEN PyStr(H["x-oss-request-id"]) ELSE EmptyStr

\* C7: after the construction of an envelope + payload result, status is the
\* response's status code, headers the response's headers and request_id the
\* derived request id: no payload default overwrites an envelope field.
C7_EnvelopeKept ==
    (obj.cls \in PayloadClasses /\ obj.outcome = "ok")
        => /\ Attr(obj, "status") = PyInt(resp.status)
           /\ Attr(obj, "headers") = PyRef("resp.headers")
           /\ Attr(obj, "request_id") = DerivedRequestId

Enabled7 == PyStr(<<"e", "n", "a", "b", "l", "e", "d">>)
\* the payload fields of each result class and their documented defaults
Defaults(cls) ==
    CASE cls = "BatchDeleteObjectsResult" -> [deleted_keys |-> PyEmptyList]
      [] cls = "InitMultipartUploadResult" -> [upload_id |-> None]
      [] cls = "ListObjectsResult" ->
           [is_truncated |-> PyBool(FALSE), next_marker |-> EmptyStr,
            object_list |-> PyEmptyList, prefix_list |-> PyEmptyList]
      [] cls = "GetObjectAclResult" -> [acl |-> EmptyStr]
      [] cls = "ListBucketsResult" ->
           [is_truncated |-> PyBool(FALSE), next_marker |-> EmptyStr,
            buckets |-> PyEmptyList]
      [] cls = "ListMultipartUploadsResult" ->
           [is_truncated |-> PyBool(FALSE), next_key_marker |-> EmptyStr,
            next_upload_id_marker |-> EmptyStr, upload_list |-> PyEmptyList,
            prefix_list |-> PyEmptyList]
      [] cls = "ListPartsResult" ->
           [is_truncated |-> PyBool(FALSE), next_marker |-> EmptyStr,
            parts |-> PyEmptyList]
      [] cls = "GetBucketAclResult" -> [acl |-> EmptyStr]
      [] cls = "GetBucketLocationResult" -> [location |-> EmptyStr]
      [] cls = "GetBucketLoggingResult" ->
           [target_bucket |-> EmptyStr, target_prefix |-> EmptyStr]
      [] cls = "GetBucketStatResult" ->
           [storage_size_in_bytes |-> PyInt(0), object_count |-> PyInt(0),
            multi_part_upload_count |-> PyInt(0)]
      [] cls = "GetBucketInfoResult" ->
           [name |-> None, owner |-> None, location |-> None,
            storage_class |-> None, intranet_endpoint |-> None,
            extranet_endpoint |-> None, creation_date |-> None, acl |-> None]
      [] cls = "GetBucketRefererResult" ->
           [allow_empty_referer |-> PyBool(FALSE), referers |-> PyEmptyList]
      [] cls = "GetBucketWebsiteResult" ->
           [index_file |-> EmptyStr, error_file |-> EmptyStr]
      [] cls = "GetBucketLifecycleResult" -> [rules |-> PyEmptyList]
      [] cls = "GetBucketCorsResult" -> [rules |-> PyEmptyList]
      [] cls \in {"CreateLiveChannelResult", "GetLiveChannelResult"} ->
           [status |-> Enabled7, description |-> EmptyStr, target |-> None,
            last_modified |-> None, name |-> None, play_url |-> None,
            publish_url |-> None]
      [] cls = "ListLiveChannelResult" ->
           [prefix |-> EmptyStr, marker |-> EmptyStr, max_keys |-> PyInt(100),
            is_truncated |-> PyBool(FALSE), next_marker |-> EmptyStr,
            channels |-> PyEmptyList]
      [] cls = "GetLiveChannelStatResult" ->
           [status |-> EmptyStr, remote_addr |-> EmptyStr,
            connected_time |-> EmptyStr, video |-> None, audio |-> None]
      [] cls = "GetLiveChannelHistoryResult" -> [records |-> PyEmptyList]

\* C8: the construction of an envelope + payload result from any response
\* (any status, headers, body) does not raise and leaves every payload field,
\* and no other field besides the envelope's, at its documented default.
C8_Defaults ==
    (obj.cls \in DefaultedClasses \cup PayloadClasses /\ obj.outcome # "none")
        => /\ obj.outcome = "ok"
           /\ DOMAIN obj.attrs = EnvelopeFields \cup DOMAIN Defaults(obj.cls)
           /\ \A f \in DOMAIN Defaults(obj.cls) :
                  Attr(obj, f) = Defaults(obj.cls)[f]
C8_Witness ==
    /\ obj.cls = "GetBucketLifecycleResult" /\ obj.outcome = "ok"
    /\ resp.status = 500 /\ resp.body = <<"{">>
    /\ Attr(obj, "rules") = PyEmptyList

HeaderDerivedClasses ==
    {"HeadObjectResult", "GetObjectMetaResult", "GetSymlinkResult",
     "PutObjectResult", "AppendObjectResult"}
\* every header a converter is applied to has a value the converter accepts
HeadersWellFormed ==
    /\ ~IsRaise(_hget(H, "last-modified", "http_to_unixtime"))
    /\ ~IsRaise(_hget(H, "content-length", "int"))
    /\ ~IsRaise(_hget(H, "x-oss-hash-crc64ecma", "int"))
    /\ ~IsRaise(_hget(H, "x-oss-next-append-position", "int"))
\* the value of a field derived from a header: None when the header is
\* absent, the converted value when it is present
Derived(key, converter) ==
    IF H[key] = Absent THEN None
    ELSE CASE converter = "str" -> PyStr(H[key])
           [] converter = "unquoted" -> PyStr(Unquote(H[key]))
           [] converter = "unquoted etag" -> PyStr(Strip(H[key], "\""))
           [] converter = "int" -> int(H[key])
           [] converter = "unixtime" -> http_to_unixtime(H[key])
\* the header-derived fields of each class
DerivedFields(cls) ==
    CASE cls = "HeadObjectResult" ->
           [object_type |-> Derived("x-oss-object-type", "str"),
            last_modified |-> Derived("last-modified", "unixtime"),
            content_type |-> Derived("content-type", "str"),
            content_length |-> Derived("content-length", "int"),
            etag |-> Derived("etag", "unquoted etag")]
      [] cls = "GetObjectMetaResult" ->
           [last_modified |-> Derived("last-modified", "unixtime"),
            content_length |-> Derived("content-length", "int"),
            etag |-> Derived("etag", "unquoted etag")]
      [] cls = "GetSymlinkResult" ->
           [target_key |-> Derived("x-oss-symlink-target", "unquoted")]
      [] cls = "PutObjectResult" ->
           [etag |-> Derived("etag", "unquoted etag"),
            crc |-> Derived("x-oss-hash-crc64ecma", "int")]
      [] cls = "AppendObjectResult" ->
           [etag |-> Derived("etag", "unquoted etag"),
            crc |-> Derived("x-oss-hash-crc64ecma", "int"),
            next_position |-> Derived("x-oss-next-append-position", "int")]

\* C9: for every header-derived result type and every subset of its headers
\* absent (the present ones well formed), construction succeeds, a field
\* whose header is absent is None and a field whose header is present is the
\* converter applied to the header value.
C9_HeaderDerived ==
    (obj.cls \in HeaderDerivedClasses /\ obj.outcome # "none" /\ HeadersWellFormed)
        => /\ obj.outcome = "ok"
           /\ \A f \in DOMAIN DerivedFields(obj.cls) :
                  HasAttr(obj, f) /\ Attr(obj, f) = DerivedFields(obj.cls)[f]

\* C10: the request_id of a constructed result is never None; it is the
\* value of the x-oss-request-id header when the header is present and the
\* empty string otherwise.
C10_RequestId ==
    obj.outcome = "ok"
        => /\ Attr(obj, "request_id") # None
           /\ Attr(obj, "request_id").t = "str"
           /\ HasHeader(H, "x-oss-request-id")
                => Attr(obj, "request_id").s = H["x-oss-request-id"]
           /\ ~HasHeader(H, "x-oss-request-id")
                => Attr(obj, "request_id").s = <<>>
C10_Witness ==
    /\ obj.cls = "RequestResult" /\ obj.outcome = "ok"
    /\ ~HasHeader(H, "x-oss-request-id")
    /\ Attr(obj, "request_id") = EmptyStr
    /\ HasHeader(H, "etag")

(* ----------------------- lifecycle value objects ---------------------- *)
\* a datetime.date, numbered
PyDate(n) == [t |-> "date", i |-> n, s |-> <<>>]

\* mutant of LifecycleExpiration.__init__: a field counts when it is true,
\* not when it is not None
LifecycleExpiration_init_truthy(o, days, date, created_before_date) ==
    LET n1 == IF Truthy(days) THEN 1 ELSE 0
        n2 == IF Truthy(date) THEN n1 + 1 ELSE n1
        not_none_fields == IF Truthy(created_before_date) THEN n2 + 1 ELSE n2
    IN IF not_none_fields > 1 THEN Raise(o, "ClientError", None)
       ELSE SetAttr(SetAttr(SetAttr(o, "days", days), "date", date),
                    "created_before_date", created_before_date)
\* LifecycleExpiration.__init__, lines 456-470
LifecycleExpiration_init(o, days, date, created_before_date) ==
    LET n1 == IF days # None THEN 1 ELSE 0
        n2 == IF date # None THEN n1 + 1 ELSE n1
        not_none_fields == IF created_before_date # None THEN n2 + 1 ELSE n2
    IN IF not_none_fields > 1 THEN Raise(o, "ClientError", None)
       ELSE SetAttr(SetAttr(SetAttr(o, "days", days), "date", date),
                    "created_before_date", created_before_date)

\* AbortMultipartUpload.__init__, lines 480-485
AbortMultipartUpload_init(o, days, created_before_date) ==
    IF days # None /\ created_before_date # None
    THEN Raise(o, "ClientError", None)
    ELSE SetAttr(SetAttr(o, "days", days), "created_before_date", created_before_date)

\* StorageTransition.__init__, lines 495-501
StorageTransition_init(o, days, created_before_date, storage_class) ==
    IF days # None /\ created_before_date # None
    THEN Raise(o, "ClientError", None)
    ELSE SetAttr(SetAttr(SetAttr(o, "days", days),
                         "created_before_date", created_before_date),
                 "storage_class", storage_class)

DaysValues == {None, PyInt(0), PyInt(1), PyInt(30)}
DateValues == {None, PyDate(1), PyDate(2)}
StorageClassValues == {None, PyStr(<<"I", "A">>), PyStr(<<"A", "r", "c", "h", "i", "v", "e">>)}
\* the value objects are not built from a response
NoResp == [status |-> 0, headers |-> NoHeaders]

InitLife ==
    /\ resp = NoResp
    /\ args \in [days : DaysValues, date : DateValues,
                 created_before_date : DateValues,
                 storage_class : StorageClassValues]
    /\ obj = NoObj
    /\ rawRead = <<>>
    /\ eof = FALSE
    /\ crcacc = 0
    /\ reported = 0
    /\ out = <<>>

NewLifecycleExpiration ==
    Construct(LifecycleExpiration_init(New("LifecycleExpiration"), args.days,
                                       args.date, args.created_before_date))
NewAbortMultipartUpload ==
    Construct(AbortMultipartUpload_init(New("AbortMultipartUpload"), args.days,
                                        args.created_before_date))
NewStorageTransition ==
    Construct(StorageTransition_init(New("StorageTransition"), args.days,
                                     args.created_before_date, args.storage_class))

NextLife ==
    \/ NewLifecycleExpiration
    \/ NewAbortMultipartUpload
    \/ NewStorageTransition

SpecLife == InitLife /\ [][NextLife]_vars

(* -------------------- claims on the lifecycle objects ------------------ *)
\* the time selectors a class takes
Selectors(cls) ==
    IF cls = "LifecycleExpiration" THEN {"days", "date", "created_before_date"}
    ELSE {"days", "created_before_date"}
\* the selectors given a value other than None
Given(cls) == {f \in Selectors(cls) : args[f] # None}
LifecycleClasses == {"LifecycleExpiration", "AbortMultipartUpload", "StorageTransition"}

\* C13: a lifecycle value object's constructor raises ClientError exactly
\* when more than one of its time selectors is not None (days, date,
\* created_before_date for LifecycleExpiration; days, created_before_date for
\* AbortMultipartUpload and StorageTransition); a constructed instance holds
\* the selectors as given, at most one of them set, and a constructor that
\* raises produces no instance.
C13_OneSelector ==
    obj.cls \in LifecycleClasses
        => /\ obj.outcome = "ClientError" <=> Cardinality(Given(obj.cls)) > 1
           /\ obj.outcome \in {"ok", "ClientError"}
           /\ obj.outcome = "ok"
                => /\ \A f \in Selectors(obj.cls) : Attr(obj, f) = args[f]
                   /\ Cardinality({f \in Selectors(obj.cls) : Attr(obj, f) # None}) <= 1
           /\ obj.outcome = "ClientError" => obj.attrs = EmptyAttrs
C13_Witness ==
    /\ obj.cls = "LifecycleExpiration"
    /\ obj.outcome = "ClientError"
    /\ args.days = PyInt(0)
    /\ args.date = None
    /\ args.created_before_date = PyDate(1)

====
